---- MODULE Spec2Model ----
(***************************************************************************)
(* Model of utils/superset/db_name_change.py: one run of the script reads  *)
(* a Superset export template, rewrites database_name inside every         *)
(* JSON-encoded params string and writes the rebuilt document.             *)
(*                                                                         *)
(* Python values are modelled as follows.                                  *)
(*   dict            a function whose domain is the set of its keys        *)
(*   list            a sequence                                            *)
(*   path            a sequence of one-character strings                   *)
(*   file text       a record [kind, layout, val]: the JSON value val      *)
(*                   written in some layout, or text that is not JSON      *)
(*   params value    a record [kind, sp, pairs]: a string holding a JSON   *)
(*                   object written pair by pair (duplicate keys allowed)  *)
(*                   with separator style sp, or a string holding another  *)
(*                   JSON value, or a string that is not JSON, or a value  *)
(*                   that is not a string at all                           *)
(***************************************************************************)
EXTENDS Integers, Sequences, FiniteSets, TLC

\* ------------------------------------------------------------------ bounds
\* Longest list of key/value pairs inside one generated params string.
MaxPairs == 2
\* Most entries (dashboards + slices + datasources) in one generated template.
MaxEntries == 3
\* Most runs of the script chained on one file system (run k+1 reads what
\* run k wrote).
MaxRuns == 2

\* ------------------------------------------------------- paths and files
\* os.path.splitext(file_name)[1]: the extension starts at the last dot of
\* the last path component, unless that component has only leading dots
\* before it.
RECURSIVE rfind(_, _, _)
rfind(p, c, i) ==
    IF i = 0 THEN 0
    ELSE IF p[i] = c THEN i
    ELSE rfind(p, c, i - 1)

splitext_ext(p) ==
    LET sepIndex == rfind(p, "/", Len(p))
        dotIndex == rfind(p, ".", Len(p))
    IN  IF dotIndex > sepIndex
           /\ \E k \in (sepIndex + 1)..(dotIndex - 1) : p[k] # "."
        THEN SubSeq(p, dotIndex, Len(p))
        ELSE <<>>

\* str.lower() on the characters the modelled paths use.
lower_char(c) ==
    CASE c = "J" -> "j"
      [] c = "S" -> "s"
      [] c = "O" -> "o"
      [] c = "N" -> "n"
      [] OTHER -> c

lower(text) == [k \in 1..Len(text) |-> lower_char(text[k])]

\* The test of validate_extension: TRUE when ArgumentTypeError is raised.
\* Mutant: "and" where the code has "or".
validate_extension_and(file_name) ==
    LET ext == splitext_ext(file_name)
    IN  lower(ext) # <<".", "j", "s", "o", "n">> /\ Len(ext) = 0

validate_extension_raises(file_name) ==
    LET ext == splitext_ext(file_name)
    IN  lower(ext) # <<".", "j", "s", "o", "n">> \/ Len(ext) = 0

\* ------------------------------------------------------------ params blobs
\* A Python dict decoded from a JSON object is kept as its items in
\* insertion order, keys unique.
RECURSIVE dict_set(_, _, _)
dict_set(items, k, v) ==
    IF items = <<>> THEN << <<k, v>> >>
    ELSE IF items[1][1] = k THEN << <<k, v>> >> \o Tail(items)
    ELSE << items[1] >> \o dict_set(Tail(items), k, v)

\* json.loads on an object: pairs are inserted left to right, so a repeated
\* key keeps its first position and takes its last value.
RECURSIVE object_pairs(_, _)
object_pairs(pairs, acc) ==
    IF pairs = <<>> THEN acc
    ELSE object_pairs(Tail(pairs), dict_set(acc, pairs[1][1], pairs[1][2]))

\* The exception json.loads(params) raises, "" when it returns.
json_loads_error(params) ==
    CASE params.kind = "notstr" -> "TypeError"
      [] params.kind = "invalid" -> "JSONDecodeError"
      [] OTHER -> ""

\* The dict json.loads(params) returns for a string holding a JSON object.
json_loads(params) == object_pairs(params.pairs, <<>>)

\* json.dumps(db_params): the items in order, default separators.
json_dumps(items) == [kind |-> "object", sp |-> "default", pairs |-> items]

\* Mutant: the key is set only when the object lacks it.
set_database_name_default(items, name) ==
    IF \E m \in 1..Len(items) : items[m][1] = "database_name"
    THEN items
    ELSE items \o << <<"database_name", name>> >>

\* db_params["database_name"] = db_name
set_database_name(items, name) == dict_set(items, "database_name", name)

\* Mutant: a string that is not JSON is taken for an empty object.
rewrite_error_lenient(params) ==
    IF params.kind \in {"notstr", "array"} THEN "TypeError" ELSE ""

\* Mutant: the key is read before it is set.
rewrite_error_strict(params) ==
    IF json_loads_error(params) # "" THEN json_loads_error(params)
    ELSE IF params.kind # "object" THEN "TypeError"
    ELSE IF \A m \in 1..Len(params.pairs) : params.pairs[m][1] # "database_name"
    THEN "KeyError"
    ELSE ""

\* Lines 56-59 and 66-69 on one params value: the exception raised ("" when
\* none) and the new params value.
rewrite_error(params) ==
    IF json_loads_error(params) # "" THEN json_loads_error(params)
    ELSE IF params.kind # "object" THEN "TypeError"
    ELSE ""

rewrite_params(params, name) ==
    json_dumps(set_database_name(json_loads(params), name))

\* --------------------------------------------------------------- templates
HasKey(d, k) == k \in DOMAIN d

RECURSIVE SeqsUpTo(_, _)
SeqsUpTo(S, n) ==
    IF n = 0 THEN {<<>>}
    ELSE SeqsUpTo(S, n - 1) \cup [1..n -> S]

PairPool == {<<"database_name", "old">>, <<"k", "v">>, <<"k", "w">>}
Separators == {"default", "compact"}

Object(sp, pairs) == [kind |-> "object", sp |-> sp, pairs |-> pairs]
ArrayParams == [kind |-> "array", sp |-> "default", pairs |-> <<>>]
InvalidParams == [kind |-> "invalid", sp |-> "default", pairs |-> <<>>]
NotStrParams == [kind |-> "notstr", sp |-> "default", pairs |-> <<>>]

\* Every params value the model generates.
ParamsSpace ==
    {Object(sp, pairs) : sp \in Separators, pairs \in SeqsUpTo(PairPool, MaxPairs)}
        \cup {ArrayParams, InvalidParams, NotStrParams}

\* The params values used inside the larger generated templates.
ParamsPool ==
    { Object("default", << <<"database_name", "old">>, <<"k", "v">> >>),
      Object("compact", << <<"k", "v">>, <<"k", "w">> >>),
      InvalidParams }

Slice(p) == "__Slice__" :> (("params" :> p) @@ ("slice_name" :> "s"))
SliceNoParams == "__Slice__" :> ("slice_name" :> "s")
SliceNoTag == "slice_name" :> "s"
SliceEntries == {Slice(p) : p \in ParamsPool} \cup {SliceNoParams, SliceNoTag}

Dashboard(sl) ==
    ("__Dashboard__" :> (("slices" :> sl) @@ ("dashboard_title" :> "t")))
        @@ ("version" :> "1")
DashboardNoSlices ==
    ("__Dashboard__" :> ("dashboard_title" :> "t")) @@ ("version" :> "1")
DashboardNoTag == "version" :> "1"

Datasource(p) ==
    ("__SqlaTable__" :> (("params" :> p) @@ ("table_name" :> "tb")))
        @@ ("version" :> "1")
DatasourceNoParams ==
    ("__SqlaTable__" :> ("table_name" :> "tb")) @@ ("version" :> "1")
DatasourceNoTag == "version" :> "1"
DatasourceEntries ==
    {Datasource(p) : p \in ParamsPool} \cup {DatasourceNoParams, DatasourceNoTag}

Template(dl, ds) ==
    ("dashboards" :> dl) @@ ("datasources" :> ds) @@ ("extra" :> "x")
TemplateNoDashboards(ds) == ("datasources" :> ds) @@ ("extra" :> "x")
TemplateNoDatasources(dl) == ("dashboards" :> dl) @@ ("extra" :> "x")

\* Dashboards with exactly k slices (k = 0 also gives the two entries that
\* lack a key).
DashboardsOf(k) ==
    {Dashboard(sl) : sl \in [1..k -> SliceEntries]}
        \cup (IF k = 0 THEN {DashboardNoSlices, DashboardNoTag} ELSE {})

\* Lists of dashboards holding at most n entries (dashboards and slices).
RECURSIVE DashboardLists(_)
DashboardLists(n) ==
    {<<>>} \cup
    UNION { { <<d>> \o rest : d \in DashboardsOf(k),
                              rest \in DashboardLists(n - 1 - k) }
            : k \in 0..(n - 1) }

RECURSIVE Entries(_)
Entries(dl) ==
    IF dl = <<>> THEN 0
    ELSE 1 + (IF HasKey(dl[1], "__Dashboard__")
                 /\ HasKey(dl[1]["__Dashboard__"], "slices")
              THEN Len(dl[1]["__Dashboard__"]["slices"]) ELSE 0)
           + Entries(Tail(dl))

Templates ==
    UNION { { Template(dl, ds) :
                ds \in SeqsUpTo(DatasourceEntries, MaxEntries - Entries(dl)) }
            : dl \in DashboardLists(MaxEntries) }
      \cup {TemplateNoDashboards(<<Datasource(p)>>) : p \in ParamsPool}
      \cup {TemplateNoDatasources(<<Dashboard(<<Slice(p)>>)>>) : p \in ParamsPool}

\* One params value from the whole space, in a slice or in a datasource.
ParamsTemplates ==
    {Template(<<Dashboard(<<Slice(p)>>)>>, <<>>) : p \in ParamsSpace}
        \cup {Template(<<>>, <<Datasource(p)>>) : p \in ParamsSpace}

SampleTemplate ==
    Template(<<Dashboard(<<Slice(Object("compact", << <<"database_name", "old">> >>))>>)>>,
             <<Datasource(Object("default", << <<"k", "v">> >>))>>)

\* ------------------------------------------------------------- file system
TJson == <<"t", ".", "j", "s", "o", "n">>
UJson == <<"u", ".", "j", "s", "o", "n">>
InPaths ==
    { TJson,
      <<"t", ".", "J", "S", "O", "N">>,
      <<"t", ".", "t", "x", "t">>,
      <<"t">>,
      <<".", "j", "s", "o", "n">>,
      <<"d", ".", "j", "s", "o", "n", "/", "t">> }
OutPaths ==
    { UJson,
      TJson,
      <<"u", ".", "J", "s", "o", "n">>,
      <<"u", ".", "t", "x", "t">>,
      <<"n", "/", "u", ".", "j", "s", "o", "n">> }
AllPaths == InPaths \cup OutPaths

None == "none" :> "none"
Absent == [kind |-> "absent", layout |-> "", val |-> None]
Garbage == [kind |-> "garbage", layout |-> "", val |-> None]
Partial == [kind |-> "partial", layout |-> "", val |-> None]
JsonText(layout, val) == [kind |-> "json", layout |-> layout, val |-> val]
Layouts == {"compact", "indent4"}

\* Only the working directory exists: a path with a directory part names
\* nothing, and cannot be created.
dir_missing(p) == rfind(p, "/", Len(p)) > 0

Names == {"new", "old"}

\* ------------------------------------------------------------------ state
VARIABLES
    input_file,     \* args.input_file
    output_file,    \* args.output_file
    db_name,        \* args.database_name
    fs,             \* the file system: path -> text
    fs0,            \* the file system as this run found it
    pc,             \* the line the run is at
    frame,          \* the decorated function being executed
    open_files,     \* the open file objects: <<path, mode>>
    db_template,    \* the document json.load returned, mutated in place
    file_data,      \* the document being rebuilt
    i,              \* position of the dashboards / datasources loop
    j,              \* position of the slices loop
    exc,            \* the exception being propagated
    log,            \* the records the root logger emitted in this run
    exit_status,    \* the process's exit status, -1 while it runs
    reads,          \* calls of json.load in this run
    writes,         \* calls of json.dump in this run
    run,            \* which run of the chain this is
    prev_output     \* the text the previous run of the chain wrote

vars == <<input_file, output_file, db_name, fs, fs0, pc, frame, open_files,
          db_template, file_data, i, j, exc, log, exit_status, reads, writes,
          run, prev_output>>

NoExc == [type |-> "", str |-> ""]
EmptyFileData == ("dashboards" :> <<>>) @@ ("datasources" :> <<>>)

StartOfRun ==
    /\ pc = "main_93"
    /\ frame = ""
    /\ open_files = {}
    /\ db_template = None
    /\ file_data = EmptyFileData
    /\ i = 0
    /\ j = 0
    /\ exc = NoExc
    /\ log = <<>>
    /\ exit_status = -1
    /\ reads = 0
    /\ writes = 0

EmptyFs == [p \in AllPaths |-> Absent]

\* Well-placed paths, every generated template.
InitTemplates ==
    /\ input_file = TJson
    /\ output_file \in {UJson, TJson}
    /\ db_name \in Names
    /\ \E t \in Templates : fs = [EmptyFs EXCEPT ![TJson] = JsonText("compact", t)]

\* Well-placed paths, one params value from the whole space.
InitParams ==
    /\ input_file = TJson
    /\ output_file = UJson
    /\ db_name \in Names
    /\ \E t \in ParamsTemplates :
          fs = [EmptyFs EXCEPT ![TJson] = JsonText("indent4", t)]

\* Every pair of paths, the input file missing, unreadable as JSON or a
\* sample template, the output file missing or already there.
InitPaths ==
    /\ input_file \in InPaths
    /\ output_file \in OutPaths
    /\ db_name = "new"
    /\ \E tin \in {Absent, Garbage} \cup {JsonText(l, SampleTemplate) : l \in Layouts},
          tout \in {Absent, Garbage} :
          fs = [p \in AllPaths |->
                  IF dir_missing(p) THEN Absent
                  ELSE IF p = input_file THEN tin
                  ELSE IF p = output_file THEN tout
                  ELSE Absent]

Init ==
    /\ InitTemplates \/ InitParams \/ InitPaths
    /\ fs0 = fs
    /\ run = 1
    /\ prev_output = Absent
    /\ StartOfRun

\* ------------------------------------------------------------- exceptions
\* raise: the with statement closes its file as the exception leaves it, and
\* the exception reaches exception_handle.
Raise(type, str) ==
    /\ exc' = [type |-> type, str |-> str]
    /\ open_files' = {}
    /\ pc' = "except"

\* issubclass(type, cls) for the exception classes the run can raise.
issubclass(type, cls) ==
    \/ cls = type
    \/ cls = "Exception"
    \/ cls = "IOError" /\ type = "FileNotFoundError"

\* arguments[0] of the decorated call.
arguments0 == IF frame = "read_input_file" THEN input_file ELSE output_file

\* The record exception_handle logs: the first except clause that matches.
\* Mutant: the IOError clause comes first.
error_record_reordered(e, args0) ==
    IF issubclass(e.type, "IOError")
    THEN [level |-> "ERROR", msg |-> "I/O error %s: %s", arg |-> <<e.str>>]
    ELSE IF issubclass(e.type, "FileNotFoundError")
    THEN [level |-> "ERROR", msg |-> "File '%s' not found. Aborting", arg |-> args0]
    ELSE [level |-> "ERROR", msg |-> "Unexpected error while writing to the file: %s",
          arg |-> <<e.str>>]

error_record(e, args0) ==
    IF issubclass(e.type, "FileNotFoundError")
    THEN [level |-> "ERROR", msg |-> "File '%s' not found. Aborting", arg |-> args0]
    ELSE IF issubclass(e.type, "IOError")
    THEN [level |-> "ERROR", msg |-> "I/O error %s: %s", arg |-> <<e.str>>]
    ELSE [level |-> "ERROR", msg |-> "Unexpected error while writing to the file: %s",
          arg |-> <<e.str>>]

\* Mutant: the clause logs and falls through, without sys.exit(1).
exception_handle_noexit ==
    /\ pc = "except"
    /\ log' = Append(log, error_record(exc, arguments0))
    /\ frame' = "write_output_file"
    /\ pc' = IF frame = "read_input_file" THEN "write_80" ELSE "main_97"
    /\ UNCHANGED <<input_file, output_file, db_name, fs, fs0, open_files,
                   db_template, file_data, i, j, exc, exit_status, reads, writes,
                   run, prev_output>>

\* except ...: logging.error(...); sys.exit(1)
exception_handle ==
    /\ pc = "except"
    /\ log' = Append(log, error_record(exc, arguments0))
    /\ exit_status' = 1
    /\ pc' = "exit"
    /\ UNCHANGED <<input_file, output_file, db_name, fs, fs0, frame, open_files,
                   db_template, file_data, i, j, exc, reads, writes, run,
                   prev_output>>

\* ------------------------------------------------------------------- main
\* logging.info("Database name entered: %s", ...), then the call of
\* read_input_file.
Main_LogStart ==
    /\ pc = "main_93"
    /\ log' = Append(log, [level |-> "INFO", msg |-> "Database name entered: %s",
                           arg |-> <<db_name>>])
    /\ frame' = "read_input_file"
    /\ pc' = "read_48"
    /\ UNCHANGED <<input_file, output_file, db_name, fs, fs0, open_files,
                   db_template, file_data, i, j, exc, exit_status, reads, writes,
                   run, prev_output>>

\* -------------------------------------------------------- read_input_file
\* file_data = {...}; if validate_extension(input_file):
Read_ValidateExtension ==
    /\ pc = "read_48"
    /\ file_data' = EmptyFileData
    /\ IF validate_extension_raises(input_file)
       THEN Raise("ArgumentTypeError", "File must have JSON extension")
       ELSE /\ pc' = "read_50"
            /\ UNCHANGED <<exc, open_files>>
    /\ UNCHANGED <<input_file, output_file, db_name, fs, fs0, frame, db_template,
                   i, j, log, exit_status, reads, writes, run, prev_output>>

\* with open(input_file, encoding="utf_8") as file_obj: the file is missing,
\* or the system refuses to open it, or it is opened for reading.
Read_Open ==
    /\ pc = "read_50"
    /\ IF fs[input_file].kind = "absent"
       THEN Raise("FileNotFoundError", "No such file or directory")
       ELSE \/ Raise("IOError", "Permission denied")
            \/ /\ open_files' = open_files \cup {<<input_file, "r">>}
               /\ pc' = "read_51"
               /\ UNCHANGED exc
    /\ UNCHANGED <<input_file, output_file, db_name, fs, fs0, frame, db_template,
                   file_data, i, j, log, exit_status, reads, writes, run,
                   prev_output>>

\* json.load(file_obj): the value the text holds; text that is not JSON
\* raises JSONDecodeError.
json_load_ok(text) == text.kind = "json"

Read_JsonLoad ==
    /\ pc = "read_51"
    /\ reads' = reads + 1
    /\ IF json_load_ok(fs[input_file])
       THEN /\ db_template' = fs[input_file].val
            /\ pc' = "read_52"
            /\ UNCHANGED <<exc, open_files>>
       ELSE /\ Raise("JSONDecodeError", "Expecting value")
            /\ UNCHANGED db_template
    /\ UNCHANGED <<input_file, output_file, db_name, fs, fs0, frame, file_data,
                   i, j, log, exit_status, writes, run, prev_output>>

\* dashborads = db_template["dashboards"]
Read_GetDashboards ==
    /\ pc = "read_52"
    /\ IF HasKey(db_template, "dashboards")
       THEN /\ i' = 1
            /\ pc' = "read_53"
            /\ UNCHANGED <<exc, open_files>>
       ELSE /\ Raise("KeyError", "dashboards")
            /\ UNCHANGED i
    /\ UNCHANGED <<input_file, output_file, db_name, fs, fs0, frame, db_template,
                   file_data, j, log, exit_status, reads, writes, run, prev_output>>

\* The locals of the loops are references into db_template.
dashborads == db_template["dashboards"]
dashboard == dashborads[i]
slices == dashboard["__Dashboard__"]["slices"]
dashboard_slice == slices[j]
datasources == db_template["datasources"]
datasource == datasources[i]

\* for dashboard in dashborads: slices = dashboard["__Dashboard__"]["slices"]
Read_ForDashboard ==
    /\ pc = "read_53"
    /\ IF i > Len(dashborads)
       THEN /\ pc' = "read_64"
            /\ UNCHANGED <<exc, open_files, j>>
       ELSE IF ~HasKey(dashboard, "__Dashboard__")
       THEN /\ Raise("KeyError", "__Dashboard__")
            /\ UNCHANGED j
       ELSE IF ~HasKey(dashboard["__Dashboard__"], "slices")
       THEN /\ Raise("KeyError", "slices")
            /\ UNCHANGED j
       ELSE /\ j' = 1
            /\ pc' = "read_55"
            /\ UNCHANGED <<exc, open_files>>
    /\ UNCHANGED <<input_file, output_file, db_name, fs, fs0, frame, db_template,
                   file_data, i, log, exit_status, reads, writes, run, prev_output>>

\* for dashboard_slice in slices: decode params, set database_name, encode.
Read_ForSlice ==
    /\ pc = "read_55"
    /\ IF j > Len(slices)
       THEN /\ pc' = "read_61"
            /\ UNCHANGED <<exc, open_files, j, db_template>>
       ELSE IF ~HasKey(dashboard_slice, "__Slice__")
       THEN /\ Raise("KeyError", "__Slice__")
            /\ UNCHANGED <<j, db_template>>
       ELSE IF ~HasKey(dashboard_slice["__Slice__"], "params")
       THEN /\ Raise("KeyError", "params")
            /\ UNCHANGED <<j, db_template>>
       ELSE IF rewrite_error(dashboard_slice["__Slice__"]["params"]) # ""
       THEN /\ Raise(rewrite_error(dashboard_slice["__Slice__"]["params"]), "params value")
            /\ UNCHANGED <<j, db_template>>
       ELSE /\ db_template' =
                 [db_template EXCEPT
                    !["dashboards"][i]["__Dashboard__"]["slices"][j]["__Slice__"]["params"] =
                        rewrite_params(@, db_name)]
            /\ j' = j + 1
            /\ UNCHANGED <<exc, open_files, pc>>
    /\ UNCHANGED <<input_file, output_file, db_name, fs, fs0, frame, file_data,
                   i, log, exit_status, reads, writes, run, prev_output>>

\* Mutant: the whole entry is kept, sibling keys included.
dashboard_temp_dict_whole(d) == d

\* Mutant: the entry itself is put under the wrapper tag.
dashboard_temp_dict_wrap(d) == "__Dashboard__" :> d

\* temp_dict = {"__Dashboard__": dashboard["__Dashboard__"]}

dashboard_temp_dict(d) == "__Dashboard__" :> d["__Dashboard__"]

\* file_data["dashboards"].append(temp_dict)
Read_AppendDashboard ==
    /\ pc = "read_61"
    /\ file_data' = [file_data EXCEPT
                       !["dashboards"] = Append(@, dashboard_temp_dict(dashboard))]
    /\ i' = i + 1
    /\ pc' = "read_53"
    /\ UNCHANGED <<input_file, output_file, db_name, fs, fs0, frame, open_files,
                   db_template, j, exc, log, exit_status, reads, writes, run,
                   prev_output>>

\* datasources = db_template["datasources"]
Read_GetDatasources ==
    /\ pc = "read_64"
    /\ IF HasKey(db_template, "datasources")
       THEN /\ i' = 1
            /\ pc' = "read_65"
            /\ UNCHANGED <<exc, open_files>>
       ELSE /\ Raise("KeyError", "datasources")
            /\ UNCHANGED i
    /\ UNCHANGED <<input_file, output_file, db_name, fs, fs0, frame, db_template,
                   file_data, j, log, exit_status, reads, writes, run, prev_output>>

\* temp_dict = {"__SqlaTable__": datasource["__SqlaTable__"]}
datasource_temp_dict(d) == "__SqlaTable__" :> d["__SqlaTable__"]

\* for datasource in datasources: rewrite its params and append the entry.
Read_ForDatasource ==
    /\ pc = "read_65"
    /\ IF i > Len(datasources)
       THEN /\ pc' = "read_73"
            /\ UNCHANGED <<exc, open_files, i, db_template, file_data>>
       ELSE IF ~HasKey(datasource, "__SqlaTable__")
       THEN /\ Raise("KeyError", "__SqlaTable__")
            /\ UNCHANGED <<i, db_template, file_data>>
       ELSE IF ~HasKey(datasource["__SqlaTable__"], "params")
       THEN /\ Raise("KeyError", "params")
            /\ UNCHANGED <<i, db_template, file_data>>
       ELSE IF rewrite_error(datasource["__SqlaTable__"]["params"]) # ""
       THEN /\ Raise(rewrite_error(datasource["__SqlaTable__"]["params"]), "params value")
            /\ UNCHANGED <<i, db_template, file_data>>
       ELSE LET new_template ==
                    [db_template EXCEPT
                       !["datasources"][i]["__SqlaTable__"]["params"] =
                           rewrite_params(@, db_name)]
            IN  /\ db_template' = new_template
                /\ file_data' =
                     [file_data EXCEPT
                        !["datasources"] =
                            Append(@, datasource_temp_dict(new_template["datasources"][i]))]
                /\ i' = i + 1
                /\ UNCHANGED <<exc, open_files, pc>>
    /\ UNCHANGED <<input_file, output_file, db_name, fs, fs0, frame, j, log,
                   exit_status, reads, writes, run, prev_output>>

\* Mutant: the file is opened without a with block and never closed.
Read_Return_noclose ==
    /\ pc = "read_73"
    /\ frame' = "write_output_file"
    /\ pc' = "write_80"
    /\ UNCHANGED <<input_file, output_file, db_name, fs, fs0, open_files,
                   db_template, file_data, i, j, exc, log, exit_status, reads,
                   writes, run, prev_output>>

\* The with block ends (the file is closed) and file_data is returned; main
\* calls write_output_file with it.
Read_Return ==
    /\ pc = "read_73"
    /\ open_files' = open_files \ {<<input_file, "r">>}
    /\ frame' = "write_output_file"
    /\ pc' = "write_80"
    /\ UNCHANGED <<input_file, output_file, db_name, fs, fs0, db_template,
                   file_data, i, j, exc, log, exit_status, reads, writes, run,
                   prev_output>>

\* ------------------------------------------------------- write_output_file
\* if validate_extension(output_file):
Write_ValidateExtension ==
    /\ pc = "write_80"
    /\ IF validate_extension_raises(output_file)
       THEN Raise("ArgumentTypeError", "File must have JSON extension")
       ELSE /\ pc' = "write_81"
            /\ UNCHANGED <<exc, open_files>>
    /\ UNCHANGED <<input_file, output_file, db_name, fs, fs0, frame, db_template,
                   file_data, i, j, log, exit_status, reads, writes, run,
                   prev_output>>

\* with open(output_file, 'w', encoding="utf_8") as file_obj: the directory
\* is missing, or the system refuses, or the file is created or truncated
\* and opened for writing.
Write_Open ==
    /\ pc = "write_81"
    /\ IF dir_missing(output_file)
       THEN /\ Raise("FileNotFoundError", "No such file or directory")
            /\ UNCHANGED fs
       ELSE \/ /\ Raise("IOError", "Permission denied")
               /\ UNCHANGED fs
            \/ /\ fs' = [fs EXCEPT ![output_file] = Partial]
               /\ open_files' = open_files \cup {<<output_file, "w">>}
               /\ pc' = "write_82"
               /\ UNCHANGED exc
    /\ UNCHANGED <<input_file, output_file, db_name, fs0, frame, db_template,
                   file_data, i, j, log, exit_status, reads, writes, run,
                   prev_output>>

\* json.dump(file_data, file_obj, indent=4): the text written.
json_dump(val) == JsonText("indent4", val)

\* json.dump(...) and the end of the with block: the whole text is written
\* and the file closed, or the system fails a write and part of it stays.
Write_JsonDump ==
    /\ pc = "write_82"
    /\ writes' = writes + 1
    /\ \/ /\ fs' = [fs EXCEPT ![output_file] = json_dump(file_data)]
          /\ open_files' = open_files \ {<<output_file, "w">>}
          /\ pc' = "main_97"
          /\ UNCHANGED exc
       \/ /\ Raise("IOError", "No space left on device")
          /\ UNCHANGED fs
    /\ UNCHANGED <<input_file, output_file, db_name, fs0, frame, db_template,
                   file_data, i, j, log, exit_status, reads, run, prev_output>>

\* logging.info("Upload file generated. ...", args.output_file); the script
\* ends.
Main_LogDone ==
    /\ pc = "main_97"
    /\ log' = Append(log, [level |-> "INFO", msg |-> "Upload file generated.",
                           arg |-> output_file])
    /\ exit_status' = 0
    /\ frame' = ""
    /\ pc' = "exit"
    /\ UNCHANGED <<input_file, output_file, db_name, fs, fs0, open_files,
                   db_template, file_data, i, j, exc, reads, writes, run,
                   prev_output>>

\* The script is run again with the same database name on the file the run
\* before it wrote, writing in place or to another well-named file.
Rerun ==
    /\ pc = "exit"
    /\ exit_status = 0
    /\ run < MaxRuns
    /\ input_file' = output_file
    /\ output_file' \in {output_file, TJson, UJson}
    /\ fs0' = fs
    /\ prev_output' = fs[output_file]
    /\ run' = run + 1
    /\ pc' = "main_93"
    /\ frame' = ""
    /\ open_files' = {}
    /\ db_template' = None
    /\ file_data' = EmptyFileData
    /\ i' = 0
    /\ j' = 0
    /\ exc' = NoExc
    /\ log' = <<>>
    /\ exit_status' = -1
    /\ reads' = 0
    /\ writes' = 0
    /\ UNCHANGED <<db_name, fs>>

Next ==
    \/ Main_LogStart
    \/ Read_ValidateExtension
    \/ Read_Open
    \/ Read_JsonLoad
    \/ Read_GetDashboards
    \/ Read_ForDashboard
    \/ Read_ForSlice
    \/ Read_AppendDashboard
    \/ Read_GetDatasources
    \/ Read_ForDatasource
    \/ Read_Return
    \/ Write_ValidateExtension
    \/ Write_Open
    \/ Write_JsonDump
    \/ Main_LogDone
    \/ exception_handle
    \/ Rerun

Spec == Init /\ [][Next]_vars

\* ------------------------------------------------ vocabulary of the claims
JsonExt == <<".", "j", "s", "o", "n">>
HasJsonExtension(p) == lower(splitext_ext(p)) = JsonExt

\* The template this run was given, when its input file holds JSON.
InputIsJson == fs0[input_file].kind = "json"
InputTemplate == fs0[input_file].val

\* read_input_file has returned its document to main.
ReadReturned == frame = "write_output_file" \/ (pc = "exit" /\ exit_status = 0)
Succeeded == pc = "exit" /\ exit_status = 0
Failed == pc = "exit" /\ exit_status = 1

ErrorRecords == SelectSeq(log, LAMBDA r : r.level = "ERROR")
StartRecord ==
    [level |-> "INFO", msg |-> "Database name entered: %s", arg |-> <<db_name>>]
DoneRecord ==
    [level |-> "INFO", msg |-> "Upload file generated.", arg |-> output_file]
NotFoundRecord(p) ==
    [level |-> "ERROR", msg |-> "File '%s' not found. Aborting", arg |-> p]
CatchAllMsg == "Unexpected error while writing to the file: %s"

\* The JSON object a params string holds, read off its text: the keys written
\* in it and, for each, the value of its last occurrence.
KeysOf(params) == {params.pairs[m][1] : m \in 1..Len(params.pairs)}
ValueOf(params, k) ==
    LET last == CHOOSE m \in 1..Len(params.pairs) :
                    /\ params.pairs[m][1] = k
                    /\ \A m2 \in (m + 1)..Len(params.pairs) : params.pairs[m2][1] # k
    IN  params.pairs[last][2]

\* out holds the object of in with database_name set to name.
Rewritten(in, out, name) ==
    /\ in.kind = "object"
    /\ out.kind = "object"
    /\ KeysOf(out) = KeysOf(in) \cup {"database_name"}
    /\ ValueOf(out, "database_name") = name
    /\ \A k \in KeysOf(in) \ {"database_name"} : ValueOf(out, k) = ValueOf(in, k)

InSlices(a) == InputTemplate["dashboards"][a]["__Dashboard__"]["slices"]
OutSlices(a) == file_data["dashboards"][a]["__Dashboard__"]["slices"]
InSliceParams(a, b) == InSlices(a)[b]["__Slice__"]["params"]
OutSliceParams(a, b) == OutSlices(a)[b]["__Slice__"]["params"]
InSourceParams(c) == InputTemplate["datasources"][c]["__SqlaTable__"]["params"]
OutSourceParams(c) == file_data["datasources"][c]["__SqlaTable__"]["params"]

\* The lists of the rebuilt document are as long as those of the template.
SameShape ==
    /\ Len(file_data["dashboards"]) = Len(InputTemplate["dashboards"])
    /\ Len(file_data["datasources"]) = Len(InputTemplate["datasources"])
    /\ \A a \in 1..Len(file_data["dashboards"]) : Len(OutSlices(a)) = Len(InSlices(a))

\* C1: once read_input_file has returned, every params string of the rebuilt
\* document (of every slice of every dashboard and of every datasource)
\* decodes to an object whose database_name is the name given, and whose
\* other keys have the values they had in the template.
C1_ParamsRewritten ==
    ReadReturned =>
        /\ SameShape
        /\ \A a \in 1..Len(file_data["dashboards"]) :
              \A b \in 1..Len(OutSlices(a)) :
                  Rewritten(InSliceParams(a, b), OutSliceParams(a, b), db_name)
        /\ \A c \in 1..Len(file_data["datasources"]) :
              Rewritten(InSourceParams(c), OutSourceParams(c), db_name)

\* A slice and a datasource were rewritten, and a params string that held
\* another name and another key was among them.
C1_Witness ==
    /\ ReadReturned
    /\ db_name = "new"
    /\ Len(file_data["datasources"]) >= 1
    /\ Len(file_data["dashboards"]) >= 1
    /\ Len(OutSlices(1)) >= 1
    /\ "database_name" \in KeysOf(InSliceParams(1, 1))
    /\ "k" \in KeysOf(InSliceParams(1, 1))
    /\ ValueOf(InSliceParams(1, 1), "database_name") = "old"

\* C2: a run on the output of a successful run with the same name succeeds
\* (no exception but an I/O failure of the system can end it), and the
\* document it writes is the very text the run before it wrote.
C2_Idempotent ==
    (run >= 2 /\ pc = "exit") =>
        \/ /\ exit_status = 0
           /\ fs[output_file] = prev_output
        \/ /\ exit_status = 1
           /\ exc.type = "IOError"

\* A second run rewrote a document with a slice and a datasource, in place.
C2_Witness ==
    /\ run >= 2
    /\ Succeeded
    /\ input_file = output_file
    /\ Len(file_data["dashboards"]) >= 1
    /\ Len(OutSlices(1)) >= 1
    /\ Len(file_data["datasources"]) >= 1

\* A key the code reads is missing somewhere in the document, or a params
\* string is not JSON.
Defective(doc) ==
    \/ ~HasKey(doc, "dashboards")
    \/ ~HasKey(doc, "datasources")
    \/ \E a \in 1..Len(doc["dashboards"]) :
          LET d == doc["dashboards"][a]
          IN  \/ ~HasKey(d, "__Dashboard__")
              \/ ~HasKey(d["__Dashboard__"], "slices")
              \/ \E b \in 1..Len(d["__Dashboard__"]["slices"]) :
                    LET sl == d["__Dashboard__"]["slices"][b]
                    IN  \/ ~HasKey(sl, "__Slice__")
                        \/ ~HasKey(sl["__Slice__"], "params")
                        \/ sl["__Slice__"]["params"].kind = "invalid"
    \/ \E c \in 1..Len(doc["datasources"]) :
          LET d == doc["datasources"][c]
          IN  \/ ~HasKey(d, "__SqlaTable__")
              \/ ~HasKey(d["__SqlaTable__"], "params")
              \/ d["__SqlaTable__"]["params"].kind = "invalid"

DefectiveInput ==
    \/ fs0[input_file].kind \in {"garbage", "partial"}
    \/ InputIsJson /\ Defective(InputTemplate)

\* C3: when the input is not JSON, or a key the code reads is missing
\* anywhere in it, or a params string is not JSON, write_output_file is never
\* called, no file is created or changed, and the run ends with status 1.
C3_AllOrNothing ==
    DefectiveInput =>
        /\ frame # "write_output_file"
        /\ writes = 0
        /\ fs = fs0
        /\ pc = "exit" => exit_status = 1

\* A run failed on a missing key or a bad params string after it had
\* rewritten an earlier entry in memory.
C3_Witness ==
    /\ Failed
    /\ exc.type \in {"KeyError", "JSONDecodeError"}
    /\ db_template # None
    /\ db_template # InputTemplate
    /\ DefectiveInput

\* C4: an input path whose extension is not .json in any letter case (no
\* extension included) is never opened, no file is created or changed, and
\* the run ends with status 1.
C4_BadInputExtension ==
    ~HasJsonExtension(input_file) =>
        /\ pc \in {"main_93", "read_48", "except", "exit"}
        /\ reads = 0
        /\ open_files = {}
        /\ fs = fs0
        /\ pc = "exit" => exit_status = 1

\* A run given an existing file with another extension has failed.
C4_Witness ==
    /\ Failed
    /\ ~HasJsonExtension(input_file)
    /\ splitext_ext(input_file) # <<>>
    /\ fs0[input_file].kind = "json"

\* C5 as stated: whenever the input path names no existing file, the run ends
\* with status 1 and the one error logged is the not-found message naming the
\* input path.
C5_Original ==
    (pc = "exit" /\ fs0[input_file].kind = "absent") =>
        /\ exit_status = 1
        /\ ErrorRecords = <<NotFoundRecord(input_file)>>

\* C5 amended: whenever the input path has the .json extension and names no
\* existing file, the run ends with status 1 and the one error logged is the
\* not-found message naming the input path.
C5_NotFound ==
    (pc = "exit" /\ fs0[input_file].kind = "absent" /\ HasJsonExtension(input_file)) =>
        /\ exit_status = 1
        /\ ErrorRecords = <<NotFoundRecord(input_file)>>

\* A run given a missing .json path has failed.
C5_Witness ==
    /\ Failed
    /\ fs0[input_file].kind = "absent"
    /\ HasJsonExtension(input_file)
    /\ exc.type = "FileNotFoundError"

\* C6 as stated: a run that ends because a path lacks the .json extension
\* never reports it through the catch-all clause of exception_handle.
C6_ExtensionNotCatchAll ==
    (pc = "exit" /\ exc.type = "ArgumentTypeError") =>
        \A m \in 1..Len(log) : log[m].msg # CatchAllMsg

\* C7: the start message is logged first and alone until the run ends; a run
\* ends either with status 0, the completion message and no error, after one
\* read and one write that completed, or with status 1, one error message
\* and no completion message; a run that has not ended can take a step.
C7_OneOutcome ==
    /\ pc = "main_93" => log = <<>>
    /\ pc \notin {"main_93", "exit"} => (log = <<StartRecord>> /\ exit_status = -1)
    /\ pc = "exit" =>
          \/ /\ exit_status = 0
             /\ log = <<StartRecord, DoneRecord>>
             /\ exc = NoExc
             /\ reads = 1
             /\ writes = 1
             /\ fs[output_file] = json_dump(file_data)
          \/ /\ exit_status = 1
             /\ Len(log) = 2
             /\ log[1] = StartRecord
             /\ log[2].level = "ERROR"
             /\ exc # NoExc
    /\ pc = "exit" \/ ENABLED Next

\* A run has failed while writing, after a read that succeeded.
C7_Witness ==
    /\ Failed
    /\ frame = "write_output_file"
    /\ writes = 1

\* The document the code builds from a template, written as one expression.
TransformDashboard(d, name) ==
    "__Dashboard__" :>
        [d["__Dashboard__"] EXCEPT
            !["slices"] =
                [b \in 1..Len(@) |->
                    [@[b] EXCEPT !["__Slice__"]["params"] = rewrite_params(@, name)]]]
TransformDatasource(d, name) ==
    "__SqlaTable__" :>
        [d["__SqlaTable__"] EXCEPT !["params"] = rewrite_params(@, name)]
Transform(doc, name) ==
    ("dashboards" :>
        [a \in 1..Len(doc["dashboards"]) |->
            TransformDashboard(doc["dashboards"][a], name)])
    @@ ("datasources" :>
        [c \in 1..Len(doc["datasources"]) |->
            TransformDatasource(doc["datasources"][c], name)])

\* C8: at most one file is open at a time and the input file is closed when
\* the output file is opened; a run reads at most once and writes at most
\* once, the write after the read; nothing is written while the input is
\* read; and a run that succeeds has read once, written once, and left in
\* the output file the document built from the input file as the run found
\* it, whether or not the two paths are the same.
C8_ReadThenWrite ==
    /\ Cardinality(open_files) <= 1
    /\ pc \in {"write_81", "write_82"} => <<input_file, "r">> \notin open_files
    /\ reads <= 1
    /\ writes <= reads
    /\ frame = "read_input_file" => (writes = 0 /\ fs = fs0)
    /\ Succeeded =>
          /\ reads = 1
          /\ writes = 1
          /\ fs = [fs0 EXCEPT ![output_file] =
                      json_dump(Transform(InputTemplate, db_name))]

\* A run has rewritten a template in place.
C8_Witness ==
    /\ Succeeded
    /\ run = 1
    /\ input_file = output_file
    /\ Len(file_data["dashboards"]) >= 1
    /\ Len(OutSlices(1)) >= 1

\* Everything of a dict but one key.
Without(d, k) == [x \in DOMAIN d \ {k} |-> d[x]]

\* C9: the rebuilt document has the two keys dashboards and datasources and
\* no other; its lists are as long as the template's and in the template's
\* order; each entry has its wrapper tag as its only key; and what the tag
\* holds is what it held in the template, but for the params strings, which
\* are rewritten.
C9_Projection ==
    ReadReturned =>
        /\ DOMAIN file_data = {"dashboards", "datasources"}
        /\ SameShape
        /\ \A a \in 1..Len(file_data["dashboards"]) :
              LET in == InputTemplate["dashboards"][a]
                  out == file_data["dashboards"][a]
              IN  /\ DOMAIN out = {"__Dashboard__"}
                  /\ Without(out["__Dashboard__"], "slices")
                        = Without(in["__Dashboard__"], "slices")
                  /\ \A b \in 1..Len(OutSlices(a)) :
                        /\ DOMAIN OutSlices(a)[b] = DOMAIN InSlices(a)[b]
                        /\ Without(OutSlices(a)[b]["__Slice__"], "params")
                              = Without(InSlices(a)[b]["__Slice__"], "params")
                        /\ Rewritten(InSliceParams(a, b), OutSliceParams(a, b), db_name)
        /\ \A c \in 1..Len(file_data["datasources"]) :
              LET in == InputTemplate["datasources"][c]
                  out == file_data["datasources"][c]
              IN  /\ DOMAIN out = {"__SqlaTable__"}
                  /\ Without(out["__SqlaTable__"], "params")
                        = Without(in["__SqlaTable__"], "params")
                  /\ Rewritten(InSourceParams(c), OutSourceParams(c), db_name)
        /\ Succeeded => fs[output_file] = json_dump(file_data)

\* A run has succeeded on a template with a key besides the two lists, a
\* dashboard entry with a sibling key and two datasources that differ.
C9_Witness ==
    /\ Succeeded
    /\ HasKey(InputTemplate, "extra")
    /\ Len(file_data["dashboards"]) >= 1
    /\ HasKey(InputTemplate["dashboards"][1], "version")
    /\ Len(file_data["datasources"]) >= 2
    /\ InputTemplate["datasources"][1] # InputTemplate["datasources"][2]

\* Every params value found in a document, under the keys the code reads.
PresentParams(doc) ==
    (IF HasKey(doc, "dashboards")
     THEN UNION {
            LET d == doc["dashboards"][a]
            IN  IF HasKey(d, "__Dashboard__") /\ HasKey(d["__Dashboard__"], "slices")
                THEN UNION {
                       LET sl == d["__Dashboard__"]["slices"][b]
                       IN  IF HasKey(sl, "__Slice__") /\ HasKey(sl["__Slice__"], "params")
                           THEN {sl["__Slice__"]["params"]}
                           ELSE {}
                       : b \in 1..Len(d["__Dashboard__"]["slices"]) }
                ELSE {}
            : a \in 1..Len(doc["dashboards"]) }
     ELSE {})
    \cup
    (IF HasKey(doc, "datasources")
     THEN UNION {
            LET d == doc["datasources"][c]
            IN  IF HasKey(d, "__SqlaTable__") /\ HasKey(d["__SqlaTable__"], "params")
                THEN {d["__SqlaTable__"]["params"]}
                ELSE {}
            : c \in 1..Len(doc["datasources"]) }
     ELSE {})

\* C10: a params string holding an object without database_name is accepted:
\* the key is added with the name given and the other keys keep their
\* values. A run fails on a params value only when it is not a string
\* holding a JSON object, and once read_input_file has returned every params
\* value of the template was such a string.
C10_MissingNameAccepted ==
    /\ ReadReturned =>
          /\ \A p \in PresentParams(InputTemplate) : p.kind = "object"
          /\ SameShape
          /\ \A c \in 1..Len(file_data["datasources"]) :
                "database_name" \notin KeysOf(InSourceParams(c)) =>
                    Rewritten(InSourceParams(c), OutSourceParams(c), db_name)
          /\ \A a \in 1..Len(file_data["dashboards"]) :
                \A b \in 1..Len(OutSlices(a)) :
                    "database_name" \notin KeysOf(InSliceParams(a, b)) =>
                        Rewritten(InSliceParams(a, b), OutSliceParams(a, b), db_name)
    /\ exc.str = "params value" =>
          /\ pc \in {"except", "exit"}
          /\ pc = "exit" => exit_status = 1
          /\ \E p \in PresentParams(InputTemplate) : p.kind # "object"

\* A run has succeeded on a template whose params string held an object
\* with another key and no database_name.
C10_Witness ==
    /\ Succeeded
    /\ Len(file_data["datasources"]) >= 1
    /\ "database_name" \notin KeysOf(InSourceParams(1))
    /\ "k" \in KeysOf(InSourceParams(1))

\* A run has failed on a params string that holds a JSON array.
C10_WitnessArray ==
    /\ Failed
    /\ exc.str = "params value"
    /\ \E p \in PresentParams(InputTemplate) : p.kind = "array"

====
